---------------------------- MODULE Spec2Model ----------------------------
(***************************************************************************)
(* A model of the backtesting core of market-intelligence-ml               *)
(* (src/src/backtest/engine.py and the model interface it drives).         *)
(*                                                                         *)
(* Numbers.  pandas/numpy floats are modelled by exact rationals           *)
(* [n |-> numerator, d |-> denominator] in lowest terms with d > 0, and    *)
(* the missing value NaN by the record with d = 0.  Arithmetic on NaN      *)
(* yields NaN and every comparison with NaN is false, as in numpy.         *)
(* Rounding error of binary floating point is not modelled.                *)
(***************************************************************************)
EXTENDS Integers, Sequences, FiniteSets

\* ------------------------------------------------------------------------
\* Bounds of the model (not program constants)
\* ------------------------------------------------------------------------

\* longest prediction / position / return series that is enumerated
MaxLen == 3

\* largest n_samples of a walk-forward run
MaxSamples == 6

\* largest train_size, step_size and retrain_frequency
MaxParam == 3

\* ------------------------------------------------------------------------
\* Exact arithmetic standing for the float arithmetic of pandas
\* ------------------------------------------------------------------------

AbsInt(a) == IF a < 0 THEN -a ELSE a

RECURSIVE GCD(_, _)
GCD(a, b) == IF b = 0 THEN a ELSE GCD(b, a % b)

NaN == [n |-> 0, d |-> 0]

IsNaN(x) == x.d = 0

\* the rational a/b (b # 0) in lowest terms
Q(a, b) ==
    LET g == GCD(AbsInt(a), AbsInt(b))
        s == IF b < 0 THEN -1 ELSE 1
    IN  [n |-> s * (a \div g), d |-> s * (b \div g)]

Zero == Q(0, 1)

One == Q(1, 1)

QAdd(x, y) ==
    IF IsNaN(x) \/ IsNaN(y) THEN NaN
    ELSE LET g == GCD(x.d, y.d)
         IN  Q(x.n * (y.d \div g) + y.n * (x.d \div g), (x.d \div g) * y.d)

QNeg(x) == IF IsNaN(x) THEN NaN ELSE [n |-> -x.n, d |-> x.d]

QSub(x, y) == QAdd(x, QNeg(y))

\* cross-reduced before multiplying, so that intermediate products stay small
QMul(x, y) ==
    IF IsNaN(x) \/ IsNaN(y) THEN NaN
    ELSE LET g1 == GCD(AbsInt(x.n), y.d)
             g2 == GCD(AbsInt(y.n), x.d)
         IN  Q((x.n \div g1) * (y.n \div g2), (x.d \div g2) * (y.d \div g1))

\* x / y; division by zero gives NaN here (callers test the divisor first)
QDiv(x, y) ==
    IF IsNaN(x) \/ IsNaN(y) \/ y.n = 0 THEN NaN
    ELSE QMul(x, Q(y.d, y.n))

QAbs(x) == IF IsNaN(x) THEN NaN ELSE [n |-> AbsInt(x.n), d |-> x.d]

\* comparisons: false as soon as an operand is NaN
QLt(x, y) == ~IsNaN(x) /\ ~IsNaN(y) /\ x.n * y.d < y.n * x.d

QLe(x, y) == ~IsNaN(x) /\ ~IsNaN(y) /\ x.n * y.d <= y.n * x.d

QEq(x, y) == ~IsNaN(x) /\ ~IsNaN(y) /\ x = y

\* np.sign: -1, 0 or +1, and NaN for NaN
QSign(x) ==
    IF IsNaN(x) THEN NaN
    ELSE IF x.n > 0 THEN One ELSE IF x.n < 0 THEN QNeg(One) ELSE Zero

\* Series.fillna(0)
FillNa0(x) == IF IsNaN(x) THEN Zero ELSE x

RECURSIVE SumQ(_, _)
SumQ(s, k) == IF k = 0 THEN Zero ELSE QAdd(SumQ(s, k - 1), s[k])

\* Series.dropna(): the non-missing values, in order
RECURSIVE DropNa(_)
DropNa(s) ==
    IF s = <<>> THEN <<>>
    ELSE IF IsNaN(s[1]) THEN DropNa(Tail(s)) ELSE <<s[1]>> \o DropNa(Tail(s))


\* ------------------------------------------------------------------------
\* State
\* ------------------------------------------------------------------------

VARIABLES
    \* BacktestEngine.__init__ (engine.py:26-27)
    transaction_cost, slippage,
    \* arguments of run_backtest (engine.py:30)
    predictions, positions, actual_returns,
    \* what run_backtest / _predictions_to_positions returned
    result,
    \* a second call on the same engine with one argument replaced, and its
    \* result; used to compare two runs
    twin, twin_result,
    \* walk_forward_backtest: len(X) and the three parameters (engine.py:134-158)
    n_samples, train_size, step_size, retrain_frequency,
    \* its loop variable and locals (engine.py:159-164)
    i, last_train_idx, wf_predictions,
    \* the model object handed in
    model,
    \* the calls made on the model, in order
    calls,
    \* where the walk is: "idle", "loop", "predict", "done" or "raised"
    pc,
    \* the two series handed to run_backtest at the end (engine.py:185-188)
    handed

engineVars ==
    <<transaction_cost, slippage, predictions, positions, actual_returns,
      result, twin, twin_result>>

walkVars ==
    <<n_samples, train_size, step_size, retrain_frequency, i, last_train_idx,
      wf_predictions, model, calls, pc, handed>>

VARIABLES
    \* arguments of BacktestService.run_backtest (backtest_service.py:28-36)
    \* and len(dates) of the first symbol's data
    symbols, sim_transaction_cost, initial_capital, n_dates,
    \* its loop variable i and locals (backtest_service.py:70-83); positions
    \* of the simulator is called sim_positions here
    sim_i, cash, sim_positions, trades, portfolio_value, portfolio_dates,
    \* what the latest loop iteration read and decided
    last_step,
    \* where the run is: "idle", "run", "done", "price_error", "index_error"
    sim_pc,
    \* the dictionary returned (backtest_service.py:203-208)
    response

VARIABLES
    \* arguments of calculate_all_metrics (metrics.py:211) and what it returned
    returns, benchmark_returns, metrics,
    \* what the metric functions return when each is called on returns
    standalone

simVars ==
    <<symbols, sim_transaction_cost, initial_capital, n_dates, sim_i, cash,
      sim_positions, trades, portfolio_value, portfolio_dates, last_step,
      sim_pc,
      response>>

metricVars == <<returns, benchmark_returns, metrics, standalone>>

VARIABLES
    \* the model objects: for each whether it was constructed, and its is_fitted
    instances,
    \* the latest call made on a model object, how it ended, and the model
    \* objects as they were before it
    last_call

modelVars == <<instances, last_call>>

VARIABLES
    \* PredictionService.trained_models (prediction_service.py:25), by symbol
    trained_models,
    \* the symbols argument of PredictionService.predict and its local results
    request_symbols, results,
    \* where predict is: "idle", "loop" or "returned"; and what it returned
    service_pc, returned

serviceVars == <<trained_models, request_symbols, results, service_pc, returned>>

vars == <<engineVars, walkVars, simVars, metricVars, modelVars, serviceVars>>

\* the model classes with an is_fitted flag
BaseModelIds == {"LinearRegressionModel", "RandomForestModel", "XGBoostPredictor"}

EnsembleIds == {"EnsemblePredictor", "SimpleAverageEnsemble", "WeightedEnsemble"}

ModelIds == BaseModelIds \cup EnsembleIds

NoCall == [op |-> "none"]

\* no model object constructed
ModelsIdle ==
    /\ instances = [m \in ModelIds |-> [built |-> FALSE, is_fitted |-> FALSE]]
    /\ last_call = NoCall

\* no PredictionService.predict call under way
ServiceIdle ==
    /\ trained_models = {}
    /\ request_symbols = <<>>
    /\ results = <<>>
    /\ service_pc = "idle"
    /\ returned = <<>>

NoStep == [date |-> -1]

NoResponse == [status |-> "none"]

\* no portfolio simulation in progress
SimIdle ==
    /\ symbols = <<>>
    /\ sim_transaction_cost = Zero
    /\ initial_capital = Zero
    /\ n_dates = 0
    /\ sim_i = 0
    /\ cash = Zero
    /\ sim_positions = <<>>
    /\ trades = <<>>
    /\ portfolio_value = <<>>
    /\ portfolio_dates = <<>>
    /\ last_step = NoStep
    /\ sim_pc = "idle"
    /\ response = NoResponse

NoMetrics == [status |-> "none"]

\* no calculate_all_metrics call under way
MetricsIdle ==
    /\ returns = <<>>
    /\ benchmark_returns = [given |-> FALSE, v |-> <<>>]
    /\ metrics = NoMetrics
    /\ standalone = NoMetrics

\* ------------------------------------------------------------------------
\* BacktestEngine._predictions_to_positions (engine.py:71-103)
\*
\* A z-score is a ratio of a rational and a square root, so a sized position
\* is kept exactly as sg * sqrt(sq) with sg in {-1, 0, 1} and sq a rational;
\* the NaN position has sq = NaN.
\* ------------------------------------------------------------------------

Surd(sg, sq) == [sg |-> sg, sq |-> sq]

SurdNaN == Surd(0, NaN)

SurdOfQ(x) ==
    IF IsNaN(x) THEN SurdNaN
    ELSE Surd(IF x.n > 0 THEN 1 ELSE IF x.n < 0 THEN -1 ELSE 0, QMul(x, x))

\* Series.mean() of the cleaned predictions
Mean(clean) == QDiv(SumQ(clean, Len(clean)), Q(Len(clean), 1))

\* Series.std() squared: the sample variance (ddof = 1), NaN for one value
Variance(clean) ==
    LET m   == Mean(clean)
        dev == [k \in 1..Len(clean) |-> QMul(QSub(clean[k], m), QSub(clean[k], m))]
    IN  QDiv(SumQ(dev, Len(clean)), Q(Len(clean) - 1, 1))

\* ((p - mean) / std).clip(-1, 1) of one prediction
ZScoreClip(p, m, var) ==
    IF IsNaN(p) THEN SurdNaN
    ELSE LET dev == QSub(p, m)
             sq  == QDiv(QMul(dev, dev), var)
         IN  Surd(QSign(dev).n, IF QLt(One, sq) THEN One ELSE sq)

PredictionsToPositions(preds) ==
    LET pred_clean == DropNa(preds)
    IN  IF Len(pred_clean) > 0
        THEN LET pred_mean == Mean(pred_clean)
                 pred_var  == Variance(pred_clean)
             IN  IF QLt(Zero, pred_var)
                 THEN [k \in 1..Len(preds) |-> ZScoreClip(preds[k], pred_mean, pred_var)]
                 ELSE [k \in 1..Len(preds) |-> SurdOfQ(QSign(preds[k]))]
        ELSE [k \in 1..Len(preds) |-> SurdOfQ(Zero)]

\* the float a sized position is, where that float is a rational
IsSquare(k) == \E r \in 0..k : r * r = k

Root(k) == CHOOSE r \in 0..k : r * r = k

SurdIsRational(z) == IsNaN(z.sq) \/ (IsSquare(z.sq.n) /\ IsSquare(z.sq.d))

SurdToQ(z) ==
    IF IsNaN(z.sq) THEN NaN ELSE Q(z.sg * Root(z.sq.n), Root(z.sq.d))

\* ------------------------------------------------------------------------
\* BacktestEngine._calculate_strategy_returns (engine.py:105-132)
\* Series are 1-based here: index t of the source is t + 1.
\* ------------------------------------------------------------------------

\* Series.shift(1)
Shift1(s, t) == IF t = 1 THEN NaN ELSE s[t - 1]

\* positions.diff().abs()
PositionChange(pos, t) == QAbs(QSub(pos[t], Shift1(pos, t)))

\* variant: positions * actual_returns.shift(-1), the lag applied the wrong way
GrossReturnLookAhead(pos, rets, t) ==
    QMul(pos[t], IF t < Len(rets) THEN rets[t + 1] ELSE NaN)

\* positions.shift(1) * actual_returns
GrossReturn(pos, rets, t) == QMul(Shift1(pos, t), rets[t])

\* variant: cost charged on the exposure held, not on its change
CostOnExposure(pos, t, tc, sl) == QMul(QAbs(pos[t]), QAdd(tc, sl))

\* position_changes * (self.transaction_cost + self.slippage)
Cost(pos, t, tc, sl) == QMul(PositionChange(pos, t), QAdd(tc, sl))

\* (gross_returns - costs).fillna(0)
NetReturn(pos, rets, t, tc, sl) ==
    FillNa0(QSub(GrossReturn(pos, rets, t), Cost(pos, t, tc, sl)))

CalculateStrategyReturns(pos, rets, tc, sl) ==
    [t \in 1..Len(rets) |-> NetReturn(pos, rets, t, tc, sl)]

\* ------------------------------------------------------------------------
\* BacktestEngine.run_backtest (engine.py:30-69)
\* ------------------------------------------------------------------------

\* initial_capital (engine.py:13)
InitialCapital == 100000

RECURSIVE CumProd(_, _)
CumProd(s, t) ==
    IF t = 0 THEN One ELSE QMul(CumProd(s, t - 1), QAdd(One, s[t]))

\* variant: (1 + strategy_returns.cumsum()) * self.initial_capital
EquityCurveCumSum(net) ==
    [t \in 1..Len(net) |-> QMul(QAdd(One, SumQ(net, t)), Q(InitialCapital, 1))]

\* (1 + strategy_returns).cumprod() * self.initial_capital
EquityCurve(net) ==
    [t \in 1..Len(net) |-> QMul(CumProd(net, t), Q(InitialCapital, 1))]

NoResult == [status |-> "none"]

NoPositions == [given |-> FALSE, v |-> <<>>]

\* the value of one call: calculate_all_metrics divides by len(returns)
\* (metrics.py:227), so an empty series raises before a result is built; the
\* metrics dictionary itself is not part of this result
Backtest(preds, pos_arg, rets, tc, sl) ==
    LET sized == PredictionsToPositions(preds)
        pos == IF pos_arg.given THEN pos_arg.v
               ELSE [k \in 1..Len(preds) |-> SurdToQ(sized[k])]
        strategy_returns == CalculateStrategyReturns(pos, rets, tc, sl)
    IN  IF Len(rets) = 0
        THEN [status |-> "raised"]
        ELSE [status       |-> "ok",
              returns      |-> strategy_returns,
              positions    |-> pos,
              equity_curve |-> EquityCurve(strategy_returns),
              predictions  |-> preds]

RunBacktest ==
    /\ result = NoResult
    /\ result' = Backtest(predictions, positions, actual_returns,
                          transaction_cost, slippage)
    /\ twin_result' =
         IF twin.kind = "returns"
         THEN Backtest(predictions, positions, twin.v, transaction_cost, slippage)
         ELSE NoResult
    /\ UNCHANGED <<transaction_cost, slippage, predictions, positions,
                   actual_returns, twin>>
    /\ UNCHANGED <<walkVars, simVars, metricVars, modelVars, serviceVars>>

\* a direct call of _predictions_to_positions on each prediction vector
SizePositions ==
    /\ result = NoResult
    /\ result' = [status |-> "sized", positions |-> PredictionsToPositions(predictions)]
    /\ twin_result' =
         IF twin.kind = "predictions"
         THEN [status |-> "sized", positions |-> PredictionsToPositions(twin.v)]
         ELSE NoResult
    /\ UNCHANGED <<transaction_cost, slippage, predictions, positions,
                   actual_returns, twin>>
    /\ UNCHANGED <<walkVars, simVars, metricVars, modelVars, serviceVars>>

\* ------------------------------------------------------------------------
\* Inputs
\* ------------------------------------------------------------------------

Series(S, lo) == UNION {[1..n -> S] : n \in lo..MaxLen}

\* explicit position sizes, each in [-1, 1]
PositionValues == {Q(-1, 1), Q(1, 2), Q(1, 1)}

\* actual returns, each >= -1
ReturnValues == {Q(-1, 1), Q(1, 2), Q(3, 2)}

\* model outputs, NaN where the model gave none
PredictionValues == {NaN, Q(-1, 1), Q(0, 1), Q(1, 1)}

\* cost and slippage rates, each >= 0
RateValues == {Q(0, 1), Q(1, 4)}

\* prediction vectors whose sized positions are all rational floats
SizedRational(preds) ==
    LET sized == PredictionsToPositions(preds)
    IN  \A k \in 1..Len(preds) : SurdIsRational(sized[k])

RationalPredictions == {p \in Series(PredictionValues, 0) : SizedRational(p)}

NoTwin == [kind |-> "none", v |-> <<>>]

\* no walk-forward run in progress
WalkIdle ==
    /\ n_samples = 0
    /\ train_size = 0
    /\ step_size = 0
    /\ retrain_frequency = 0
    /\ i = 0
    /\ last_train_idx = 0
    /\ wf_predictions = <<>>
    /\ model = [is_fitted |-> FALSE, trained |-> -1]
    /\ calls = <<>>
    /\ pc = "idle"
    /\ handed = <<>>

\* one run_backtest call: explicit positions, or positions=None
InitEngine ==
    /\ WalkIdle
    /\ SimIdle
    /\ MetricsIdle
    /\ ModelsIdle
    /\ ServiceIdle
    /\ \/ /\ positions \in {[given |-> TRUE, v |-> p] : p \in Series(PositionValues, 0)}
          /\ predictions = [k \in 1..Len(positions.v) |-> Zero]
       \/ /\ positions = NoPositions
          /\ predictions \in RationalPredictions
    /\ actual_returns \in [1..Len(predictions) -> ReturnValues]
    /\ transaction_cost \in RateValues
    /\ slippage \in RateValues
    /\ result = NoResult
    /\ twin = NoTwin
    /\ twin_result = NoResult

SpecEngine == InitEngine /\ [][RunBacktest]_vars


\* a return other than r
OtherReturn(r) == CHOOSE x \in ReturnValues : x # r

\* rets with every return from index div on replaced by another one
ReplaceFrom(rets, div) ==
    [k \in 1..Len(rets) |-> IF k < div THEN rets[k] ELSE OtherReturn(rets[k])]

\* two run_backtest calls with the same positions whose actual returns
\* agree before some index and may differ from it on
InitCausal ==
    /\ WalkIdle
    /\ SimIdle
    /\ MetricsIdle
    /\ ModelsIdle
    /\ ServiceIdle
    /\ transaction_cost \in RateValues
    /\ slippage \in RateValues
    /\ actual_returns \in Series(ReturnValues, 1)
    /\ positions \in {[given |-> TRUE, v |-> p] :
                        p \in [1..Len(actual_returns) -> PositionValues]}
    /\ predictions = [k \in 1..Len(actual_returns) |-> Zero]
    /\ result = NoResult
    /\ twin \in {[kind |-> "returns", v |-> ReplaceFrom(actual_returns, div)] :
                   div \in 1..Len(actual_returns)}
    /\ twin_result = NoResult

SpecCausal == InitCausal /\ [][RunBacktest]_vars

\* two direct calls of _predictions_to_positions on arbitrary vectors
InitSizer ==
    /\ WalkIdle
    /\ SimIdle
    /\ MetricsIdle
    /\ ModelsIdle
    /\ ServiceIdle
    /\ transaction_cost = Zero
    /\ slippage = Zero
    /\ actual_returns = <<>>
    /\ positions = NoPositions
    /\ predictions \in Series(PredictionValues, 0)
    /\ result = NoResult
    /\ twin \in {[kind |-> "predictions", v |-> q] : q \in Series(PredictionValues, 0)}
    /\ twin_result = NoResult

SpecSizer == InitSizer /\ [][SizePositions]_vars


\* ------------------------------------------------------------------------
\* Properties of run_backtest and _calculate_strategy_returns
\* (index t of the source is t + 1 here)
\* ------------------------------------------------------------------------

BothRan == result.status = "ok" /\ twin_result.status = "ok"

\* C1: two runs with the same positions whose actual returns agree at every
\* index below t have equal equity at every index below t, whatever the
\* returns from t on are.
EquityCausality ==
    BothRan =>
      \A t \in 1..(Len(actual_returns) + 1) :
        (\A k \in 1..(t - 1) : actual_returns[k] = twin.v[k])
          => \A k \in 1..(t - 1) :
               result.equity_curve[k] = twin_result.equity_curve[k]

\* C1 witness: the returns first differ at an index after the first one, the
\* equity differs there, and it is equal at all earlier indices.
EquityCausalityWitness ==
    /\ BothRan
    /\ \E t \in 2..Len(actual_returns) :
         /\ \A k \in 1..(t - 1) : actual_returns[k] = twin.v[k]
         /\ actual_returns[t] # twin.v[t]
         /\ result.equity_curve[t] # twin_result.equity_curve[t]
         /\ result.equity_curve[t - 1] = twin_result.equity_curve[t - 1]

\* position[t-1] * actual_return[t] - |position[t] - position[t-1]| * (tc + sl)
LaggedNet(pos, rets, t, tc, sl) ==
    QSub(QMul(pos[t - 1], rets[t]),
         QMul(QAbs(QSub(pos[t], pos[t - 1])), QAdd(tc, sl)))

\* C2: at every index after the first the net return is
\* position[t-1] * actual_return[t] minus |position[t] - position[t-1]| times
\* (transaction_cost + slippage).
NetReturnFormula ==
    result.status = "ok" =>
      \A t \in 2..Len(actual_returns) :
        result.returns[t] =
          LaggedNet(result.positions, actual_returns, t, transaction_cost, slippage)

\* C4: the equity curve starts at initial_capital, the first net return being
\* zero, and equity[t] = equity[t-1] * (1 + net_return[t]) afterwards.
EquityCompounding ==
    result.status = "ok" =>
      /\ result.returns[1] = Zero
      /\ result.equity_curve[1] = Q(InitialCapital, 1)
      /\ \A t \in 2..Len(actual_returns) :
           result.equity_curve[t] =
             QMul(result.equity_curve[t - 1], QAdd(One, result.returns[t]))

\* C4 witness: a run of three periods with a first position that is not flat,
\* costs charged, and two non-zero net returns compounding.
EquityCompoundingWitness ==
    /\ result.status = "ok"
    /\ Len(actual_returns) = 3
    /\ QLt(Zero, QAdd(transaction_cost, slippage))
    /\ result.positions[1] # Zero
    /\ result.returns[2] # Zero
    /\ result.returns[3] # Zero
    /\ result.equity_curve[3] # result.equity_curve[2]
    /\ result.equity_curve[2] # result.equity_curve[1]

\* C5: where position[t] equals position[t-1] no cost is deducted: the net
\* return is the gross return position[t-1] * actual_return[t].
TurnoverInvariant ==
    result.status = "ok" =>
      \A t \in 2..Len(actual_returns) :
        QEq(result.positions[t], result.positions[t - 1])
          => result.returns[t] = QMul(result.positions[t - 1], actual_returns[t])

\* C5 witness: a position held unchanged under a positive cost rate.
TurnoverInvariantWitness ==
    /\ result.status = "ok"
    /\ QLt(Zero, QAdd(transaction_cost, slippage))
    /\ \E t \in 2..Len(actual_returns) :
         /\ QEq(result.positions[t], result.positions[t - 1])
         /\ result.positions[t] # Zero
         /\ result.returns[t] # Zero

\* C7: with positions in [-1, 1], returns >= -1 and rates >= 0, every value
\* of the equity curve is >= 0.
EquityNonNegative ==
    (/\ result.status = "ok"
     /\ \A t \in 1..Len(actual_returns) :
          /\ QLe(QNeg(One), result.positions[t])
          /\ QLe(result.positions[t], One)
          /\ QLe(QNeg(One), actual_returns[t])
     /\ QLe(Zero, transaction_cost)
     /\ QLe(Zero, slippage))
      => \A t \in 1..Len(actual_returns) : QLe(Zero, result.equity_curve[t])

\* ------------------------------------------------------------------------
\* Properties of _predictions_to_positions
\* ------------------------------------------------------------------------

BothSized == result.status = "sized" /\ twin_result.status = "sized"

\* C3: two prediction vectors that agree at every index <= t yield the same
\* position at t.
PositionsCausal ==
    BothSized =>
      \A t \in 1..Len(predictions) :
        (t <= Len(twin.v) /\ \A k \in 1..t : predictions[k] = twin.v[k])
          => result.positions[t] = twin_result.positions[t]

SurdInUnitRange(z) == QLe(z.sq, One)

\* C6: every sized position lies in [-1, 1]; with no valid prediction every
\* position is 0; with a zero standard deviation every position is the sign
\* of its prediction.
PositionsBounded ==
    result.status = "sized" =>
      /\ \A k \in 1..Len(predictions) : SurdInUnitRange(result.positions[k])
      /\ DropNa(predictions) = <<>>
           => \A k \in 1..Len(predictions) : result.positions[k] = SurdOfQ(Zero)
      /\ (DropNa(predictions) # <<>> /\ Variance(DropNa(predictions)) = Zero)
           => \A k \in 1..Len(predictions) :
                ~IsNaN(predictions[k])
                  => result.positions[k] = SurdOfQ(QSign(predictions[k]))


\* ------------------------------------------------------------------------
\* BacktestEngine.walk_forward_backtest (engine.py:134-195)
\*
\* Rows are numbered from 0 as in the source.  The model object is opaque:
\* is_fitted is the flag its predict tests (baseline_models.py:72-73) and
\* trained is the number of leading rows its latest fit in this walk saw
\* (-1: not fitted by this walk).  A prediction is kept as the row it is for
\* and the training state of the model that made it.
\* ------------------------------------------------------------------------

NoPred == [row |-> -1, trained |-> -1]

\* variant: retrain only when strictly more than retrain_frequency has passed
NeedsRetrainStrict(idx, last, freq) == idx - last > freq

\* if i - last_train_idx >= retrain_frequency
NeedsRetrain(idx, last, freq) == idx - last >= freq

\* variant: X.iloc[:i + 1], the first row to predict slips into the training set
TrainStopInclusive(idx) == idx + 1

\* X.iloc[:i], y.iloc[:i]: the training rows are 0 .. TrainStop(i) - 1
TrainStop(idx) == idx

\* a step that stops one row short of the end of the data
EndIdxDropLast(idx, step, n) == IF idx + step < n THEN idx + step ELSE n - 1

\* end_idx = min(i + step_size, n_samples)
EndIdx(idx, step, n) == IF idx + step < n THEN idx + step ELSE n

\* model.fit(X_train, y_train); last_train_idx = i
WalkRetrain ==
    /\ pc = "loop"
    /\ i < n_samples
    /\ NeedsRetrain(i, last_train_idx, retrain_frequency)
    /\ model' = [is_fitted |-> TRUE, trained |-> TrainStop(i)]
    /\ calls' = Append(calls, [op |-> "fit", at |-> i, lo |-> 0,
                               hi |-> TrainStop(i), trained |-> TrainStop(i)])
    /\ last_train_idx' = i
    /\ pc' = "predict"
    /\ UNCHANGED <<n_samples, train_size, step_size, retrain_frequency, i,
                   wf_predictions, handed>>
    /\ UNCHANGED <<engineVars, simVars, metricVars, modelVars, serviceVars>>

\* the retrain test fails: the model is used as it is
WalkKeep ==
    /\ pc = "loop"
    /\ i < n_samples
    /\ ~NeedsRetrain(i, last_train_idx, retrain_frequency)
    /\ pc' = "predict"
    /\ UNCHANGED <<n_samples, train_size, step_size, retrain_frequency, i,
                   last_train_idx, wf_predictions, model, calls, handed>>
    /\ UNCHANGED <<engineVars, simVars, metricVars, modelVars, serviceVars>>

\* preds = model.predict(X.iloc[i:end_idx]); predictions.iloc[i:end_idx] = preds
\* predict raises ValueError on a model whose is_fitted is False
WalkPredict ==
    /\ pc = "predict"
    /\ LET end_idx == EndIdx(i, step_size, n_samples)
       IN  /\ calls' = Append(calls, [op |-> "predict", at |-> i, lo |-> i,
                                      hi |-> end_idx, trained |-> model.trained])
           /\ IF model.is_fitted
              THEN /\ wf_predictions' =
                        [j \in 0..(n_samples - 1) |->
                           IF i <= j /\ j < end_idx
                           THEN [row |-> j, trained |-> model.trained]
                           ELSE wf_predictions[j]]
                   /\ i' = i + step_size
                   /\ pc' = "loop"
              ELSE /\ pc' = "raised"
                   /\ UNCHANGED <<wf_predictions, i>>
    /\ UNCHANGED <<n_samples, train_size, step_size, retrain_frequency,
                   last_train_idx, model, handed>>
    /\ UNCHANGED <<engineVars, simVars, metricVars, modelVars, serviceVars>>

\* the rows of predictions.dropna(), in index order
RECURSIVE KeptRows(_, _)
KeptRows(preds, n) ==
    IF n = 0 THEN <<>>
    ELSE IF preds[n - 1] = NoPred THEN KeptRows(preds, n - 1)
         ELSE Append(KeptRows(preds, n - 1), n - 1)

\* the loop is over: run_backtest(predictions.dropna(), y.loc[those rows]);
\* with nothing predicted the series are empty and run_backtest raises
WalkFinish ==
    /\ pc = "loop"
    /\ i >= n_samples
    /\ LET kept == KeptRows(wf_predictions, n_samples)
       IN  /\ handed' = [k \in 1..Len(kept) |->
                           [prediction |-> wf_predictions[kept[k]], actual |-> kept[k]]]
           /\ pc' = IF Len(kept) = 0 THEN "raised" ELSE "done"
    /\ UNCHANGED <<n_samples, train_size, step_size, retrain_frequency, i,
                   last_train_idx, wf_predictions, model, calls>>
    /\ UNCHANGED <<engineVars, simVars, metricVars, modelVars, serviceVars>>

WalkNext == WalkRetrain \/ WalkKeep \/ WalkPredict \/ WalkFinish

\* no run_backtest call under way
EngineIdle ==
    /\ transaction_cost = Zero
    /\ slippage = Zero
    /\ predictions = <<>>
    /\ positions = NoPositions
    /\ actual_returns = <<>>
    /\ result = NoResult
    /\ twin = NoTwin
    /\ twin_result = NoResult

\* a walk over n_samples rows; the model handed in is fresh or was fitted by
\* the caller
InitWalk ==
    /\ EngineIdle
    /\ SimIdle
    /\ MetricsIdle
    /\ ModelsIdle
    /\ ServiceIdle
    /\ n_samples \in 0..MaxSamples
    /\ train_size \in 1..MaxParam
    /\ step_size \in 1..MaxParam
    /\ retrain_frequency \in 1..MaxParam
    /\ i = train_size
    /\ last_train_idx = 0
    /\ wf_predictions = [j \in 0..(n_samples - 1) |-> NoPred]
    /\ model \in {[is_fitted |-> f, trained |-> -1] : f \in BOOLEAN}
    /\ calls = <<>>
    /\ pc = "loop"
    /\ handed = <<>>

SpecWalk == InitWalk /\ [][WalkNext]_vars

\* ------------------------------------------------------------------------
\* Properties of walk_forward_backtest
\* ------------------------------------------------------------------------

FitCalls == {k \in 1..Len(calls) : calls[k].op = "fit"}

PredictCalls == {k \in 1..Len(calls) : calls[k].op = "predict"}

\* C8: every predict call is made after at least one fit call of the walk,
\* and the model it uses is the one fitted at the latest such call.
PredictAfterFit ==
    \A k \in PredictCalls :
      /\ \E f \in FitCalls : f < k
      /\ \A f \in FitCalls :
           (f < k /\ \A g \in FitCalls : g < k => g <= f)
             => /\ calls[f].at <= calls[k].at
                /\ calls[k].trained = calls[f].trained

\* the index of the latest fit before the step that starts at idx; 0 if none
LastFitBefore(idx) ==
    LET earlier == {calls[f].at : f \in {g \in FitCalls : calls[g].at < idx}}
    IN  IF earlier = {} THEN 0
        ELSE CHOOSE m \in earlier : \A x \in earlier : x <= m

\* C9: the model is refitted at a step start i exactly when i minus the index
\* of the previous fit (0 before the first) is >= retrain_frequency; two
\* consecutive fits are at least retrain_frequency apart.
RetrainSchedule ==
    /\ \A k \in PredictCalls :
         (\E f \in FitCalls : calls[f].at = calls[k].at)
           <=> calls[k].at - LastFitBefore(calls[k].at) >= retrain_frequency
    /\ \A f, g \in FitCalls :
         f < g => calls[g].at - calls[f].at >= retrain_frequency

\* C9 witness: a finished walk with two fits and, between them, a step that
\* reused the model.
RetrainScheduleWitness ==
    /\ pc = "done"
    /\ \E f, g \in FitCalls :
         /\ f < g
         /\ \E k \in PredictCalls :
              /\ f < k
              /\ k < g
              /\ calls[k].at > calls[f].at

WalkBacktestsTestRows ==
    /\ pc = "done" =>
         /\ n_samples > train_size
         /\ Len(handed) = n_samples - train_size
         /\ \A k \in 1..Len(handed) :
              /\ handed[k].actual = train_size + k - 1
              /\ handed[k].prediction.row = handed[k].actual
    /\ (pc = "raised" /\ n_samples > train_size) =>
         /\ calls # <<>>
         /\ calls[Len(calls)].op = "predict"
         /\ ~model.is_fitted

\* C11 witness: a finished walk whose last step was shorter than step_size
WalkBacktestsTestRowsWitness ==
    /\ pc = "done"
    /\ step_size > 1
    /\ (n_samples - train_size) % step_size # 0
    /\ Len(handed) > step_size

\* ------------------------------------------------------------------------
\* BacktestService.run_backtest: the portfolio simulator
\* (src/backend/app/services/backtest_service.py)
\* ------------------------------------------------------------------------

\* Bounds of the simulator model

\* most loop iterations of a run over two symbols
MaxSteps == 2

\* longest trade log from which a response is built
MaxTrades == 102

\* for i in range(100, len(dates))
WarmUp == 100

\* if p > 0.01
BuyThreshold == Q(1, 100)

\* [:2]
TopN == 2

\* cash * 0.95
AllocationShare == Q(19, 20)

\* trades[:100]
TradeCap == 100

\* x >= y on floats
QGe(x, y) == ~IsNaN(x) /\ ~IsNaN(y) /\ QSub(x, y).n >= 0

InSeq(x, seq) == \E k \in 1..Len(seq) : seq[k] = x

\* the keys of the predictions dict in insertion order: the symbols, in the
\* order of the input list, for which a prediction was stored
PredictedSymbols(syms, preds) ==
    SelectSeq(syms, LAMBDA s : s \in DOMAIN preds)

\* a sort that puts a key before the keys of equal prediction that came
\* in before it
RECURSIVE InsertDescendingUnstable(_, _, _)
InsertDescendingUnstable(sorted, s, preds) ==
    IF sorted = <<>> THEN <<s>>
    ELSE IF QLe(preds[sorted[1]], preds[s])
         THEN <<s>> \o sorted
         ELSE <<sorted[1]>> \o InsertDescendingUnstable(Tail(sorted), s, preds)

\* where a key goes in a list sorted by descending prediction so that keys
\* with equal predictions stay in the order they came in
RECURSIVE InsertDescending(_, _, _)
InsertDescending(sorted, s, preds) ==
    IF sorted = <<>> THEN <<s>>
    ELSE IF QLt(preds[sorted[1]], preds[s])
         THEN <<s>> \o sorted
         ELSE <<sorted[1]>> \o InsertDescending(Tail(sorted), s, preds)

\* sorted(predictions.items(), key=lambda x: x[1], reverse=True), keys only
RECURSIVE SortedPreds(_, _)
SortedPreds(keys, preds) ==
    IF keys = <<>> THEN <<>>
    ELSE InsertDescending(SortedPreds(SubSeq(keys, 1, Len(keys) - 1), preds),
                          keys[Len(keys)], preds)

Take(seq, k) == SubSeq(seq, 1, IF Len(seq) < k THEN Len(seq) ELSE k)

\* p > 0.01
AboveThreshold(p) == QLt(BuyThreshold, p)

\* a buy list that keeps every symbol above the threshold
BuySymbolsUncut(syms, preds) ==
    SelectSeq(SortedPreds(PredictedSymbols(syms, preds), preds),
              LAMBDA s : AboveThreshold(preds[s]))

\* buy_symbols = [s for s, p in sorted_preds if p > 0.01][:2]
BuySymbols(syms, preds) ==
    Take(SelectSeq(SortedPreds(PredictedSymbols(syms, preds), preds),
                   LAMBDA s : AboveThreshold(preds[s])), TopN)

\* the running state of one loop iteration: cash, positions, the trade log,
\* and ok = FALSE once a price lookup data_dict[s].loc[current_date, 'Close']
\* has raised KeyError because s has no row for the date
Running(c, pos, log) == [cash |-> c, positions |-> pos, trades |-> log, ok |-> TRUE]

Failed(st) == [st EXCEPT !.ok = FALSE]

\* one pass of the selling loop: a held symbol outside the buy set is sold
\* whole at the day's close, less the cost
SellOne(st, s, buy, date, close, tc) ==
    IF ~st.ok THEN st
    ELSE IF ~(QLt(Zero, st.positions[s]) /\ ~InSeq(s, buy)) THEN st
    ELSE IF s \notin DOMAIN close THEN Failed(st)
    ELSE LET gross == QMul(st.positions[s], close[s])
             proceeds == QSub(gross, QMul(gross, tc))
         IN  Running(QAdd(st.cash, proceeds),
                     [st.positions EXCEPT ![s] = Zero],
                     Append(st.trades,
                            [date |-> date, symbol |-> s, action |-> "SELL",
                             quantity |-> st.positions[s], price |-> close[s],
                             value |-> proceeds]))

\* for symbol in list(positions.keys()): the first k symbols handled
RECURSIVE SellLoop(_, _, _, _, _, _, _)
SellLoop(st, syms, k, buy, date, close, tc) ==
    IF k = 0 THEN st
    ELSE SellOne(SellLoop(st, syms, k - 1, buy, date, close, tc),
                 syms[k], buy, date, close, tc)

\* a purchase made whatever the cash at hand
AlwaysAfford(c, cost) == TRUE

\* if cash >= cost
CanAfford(c, cost) == QGe(c, cost)

\* allocation_per_symbol = cash * 0.95 / len(buy_symbols)
AllocationPerSymbol(c, buy) == QDiv(QMul(c, AllocationShare), Q(Len(buy), 1))

\* one pass of the buying loop: the price is looked up first, then the
\* purchase is made if the cash covers allocation * (1 + transaction_cost)
BuyOne(st, s, alloc, date, close, tc) ==
    IF ~st.ok THEN st
    ELSE IF s \notin DOMAIN close THEN Failed(st)
    ELSE LET cost == QMul(alloc, QAdd(One, tc))
             shares == QDiv(alloc, close[s])
         IN  IF CanAfford(st.cash, cost)
             THEN Running(QSub(st.cash, cost),
                          [st.positions EXCEPT ![s] = shares],
                          Append(st.trades,
                                 [date |-> date, symbol |-> s, action |-> "BUY",
                                  quantity |-> shares, price |-> close[s],
                                  value |-> alloc]))
             ELSE st

\* for symbol in buy_symbols: the first k of them handled
RECURSIVE BuyLoop(_, _, _, _, _, _, _)
BuyLoop(st, buy, k, alloc, date, close, tc) ==
    IF k = 0 THEN st
    ELSE BuyOne(BuyLoop(st, buy, k - 1, alloc, date, close, tc),
                buy[k], alloc, date, close, tc)

\* the symbols with positions[s] > 0
Held(pos) == {s \in DOMAIN pos : QLt(Zero, pos[s])}

\* the sum of shares * current_price over the first k symbols that are held
RECURSIVE HoldingsValue(_, _, _, _)
HoldingsValue(pos, syms, k, close) ==
    IF k = 0 THEN Zero
    ELSE IF QLt(Zero, pos[syms[k]])
         THEN QAdd(HoldingsValue(pos, syms, k - 1, close),
                   QMul(pos[syms[k]], close[syms[k]]))
         ELSE HoldingsValue(pos, syms, k - 1, close)

\* an equity value that leaves the holdings out
CashOnly(c, pos, syms, close) == c

\* total_value = cash + sum of shares * close over the held symbols
TotalValue(c, pos, syms, close) == QAdd(c, HoldingsValue(pos, syms, Len(syms), close))

\* the body of `if predictions:` (sells, then buys); without predictions
\* nothing is traded.  The result also tells the cash at which the
\* allocation was computed.
Trade(st, syms, preds, date, close, tc) ==
    IF DOMAIN preds = {}
    THEN [after |-> st, sold |-> st, buy |-> <<>>]
    ELSE LET buy == BuySymbols(syms, preds)
             sold == SellLoop(st, syms, Len(syms), buy, date, close, tc)
             alloc == AllocationPerSymbol(sold.cash, buy)
         IN  [after |-> IF buy = <<>> \/ ~sold.ok THEN sold
                        ELSE BuyLoop(sold, buy, Len(buy), alloc, date, close, tc),
              sold |-> sold,
              buy |-> buy]

\* ------------------------------------------------------------------------
\* Inputs of the simulator that are enumerated
\* ------------------------------------------------------------------------

Range(seq) == {seq[k] : k \in 1..Len(seq)}

\* two symbols for runs of several steps; three, so that the cut to the
\* first two shows, for runs of one step
SymbolLists == {<<"A", "B">>, <<"A", "B", "C">>}

\* len(dates): the warm-up alone (no step), or up to MaxSteps steps
DateCounts(syms) ==
    IF Len(syms) > TopN THEN {WarmUp + 1} ELSE WarmUp..(WarmUp + MaxSteps)

\* predicted returns: at the threshold and above it; the longer list also
\* has a value between
SimPredictionValues(syms) ==
    IF Len(syms) > TopN THEN {Q(1, 100), Q(1, 50), Q(1, 20)}
    ELSE {Q(1, 100), Q(1, 20)}

\* a symbol with no model, too few feature rows or a failing predict stores
\* no prediction: the dict has the other symbols only
PredictionDicts(syms) ==
    UNION {[keys -> SimPredictionValues(syms)] : keys \in SUBSET Range(syms)}

\* the 'Close' column at one date: dates are those of the first symbol,
\* which therefore has a row; another symbol may have none
CloseRows(syms) ==
    UNION {[have -> {Q(1, 1), Q(2, 1)}] :
           have \in {h \in SUBSET Range(syms) : syms[1] \in h}}

\* transaction_cost: none, one the allocation still covers, one it does
\* not, and the whole amount traded
CostValues == {Q(0, 1), Q(1, 20), Q(1, 10), Q(1, 1)}

\* ------------------------------------------------------------------------
\* The run
\* ------------------------------------------------------------------------

\* one iteration of `for i in range(100, len(dates))`: predictions, ranking,
\* sells, buys and the valuation.  A price lookup that fails raises out of
\* run_backtest: the run is over and returns nothing.
SimStep ==
    /\ sim_pc = "run"
    /\ sim_i < n_dates
    /\ \E preds \in PredictionDicts(symbols), close \in CloseRows(symbols) :
         LET st0 == Running(cash, sim_positions, trades)
             tr == Trade(st0, symbols, preds, sim_i, close, sim_transaction_cost)
             valued == tr.after.ok /\ Held(tr.after.positions) \subseteq DOMAIN close
         IN  /\ last_step' = [date |-> sim_i, predictions |-> preds,
                              close |-> close, buy |-> tr.buy,
                              held |-> sim_positions, cash_start |-> cash,
                              cash_sold |-> tr.sold.cash, logged |-> Len(trades),
                              log |-> trades]
             /\ IF valued
                THEN /\ cash' = tr.after.cash
                     /\ sim_positions' = tr.after.positions
                     /\ trades' = tr.after.trades
                     /\ portfolio_dates' = Append(portfolio_dates, sim_i)
                     /\ portfolio_value' =
                          Append(portfolio_value,
                                 TotalValue(tr.after.cash, tr.after.positions,
                                            symbols, close))
                     /\ sim_i' = sim_i + 1
                     /\ UNCHANGED sim_pc
                ELSE /\ sim_pc' = "price_error"
                     /\ UNCHANGED <<cash, sim_positions, trades, portfolio_dates,
                                    portfolio_value, sim_i>>
    /\ UNCHANGED <<symbols, sim_transaction_cost, initial_capital, n_dates, response>>
    /\ UNCHANGED <<engineVars, walkVars, metricVars, modelVars, serviceVars>>

\* a total_trades taken from the list that is returned
TotalTradesOfReturned(log) == Len(Take(log, TradeCap))

\* "total_trades": len(trades)
TotalTrades(log) == Len(log)

\* "trades": trades[:100]
TradesReturned(log) == Take(log, TradeCap)

\* after the loop: the equity series is indexed by [dates[100]] +
\* portfolio_dates (IndexError when there are no more than 100 dates) and the
\* response is assembled
SimFinish ==
    /\ sim_pc = "run"
    /\ sim_i >= n_dates
    /\ IF n_dates <= WarmUp
       THEN /\ sim_pc' = "index_error"
            /\ UNCHANGED response
       ELSE /\ sim_pc' = "done"
            /\ response' = [status |-> "ok",
                            equity_dates |-> <<WarmUp>> \o portfolio_dates,
                            equity_values |-> portfolio_value,
                            trades |-> TradesReturned(trades),
                            total_trades |-> TotalTrades(trades)]
    /\ UNCHANGED <<symbols, sim_transaction_cost, initial_capital, n_dates, sim_i,
                   cash, sim_positions, trades, portfolio_value, portfolio_dates,
                   last_step>>
    /\ UNCHANGED <<engineVars, walkVars, metricVars, modelVars, serviceVars>>

SimNext == SimStep \/ SimFinish

\* run_backtest up to the loop: models trained, portfolio initialised
InitPortfolio ==
    /\ EngineIdle
    /\ WalkIdle
    /\ MetricsIdle
    /\ ModelsIdle
    /\ ServiceIdle
    /\ symbols \in SymbolLists
    /\ n_dates \in DateCounts(symbols)
    /\ sim_transaction_cost \in CostValues
    /\ initial_capital = Q(InitialCapital, 1)
    /\ sim_i = WarmUp
    /\ cash = initial_capital
    /\ sim_positions = [s \in Range(symbols) |-> Zero]
    /\ trades = <<>>
    /\ portfolio_value = <<initial_capital>>
    /\ portfolio_dates = <<>>
    /\ last_step = NoStep
    /\ sim_pc = "run"
    /\ response = NoResponse

SpecPortfolio == InitPortfolio /\ [][SimNext]_vars

\* ------------------------------------------------------------------------
\* Properties of the portfolio simulator
\* ------------------------------------------------------------------------

\* the place of a symbol in the input list
PlaceOf(s) == CHOOSE k \in 1..Len(symbols) : symbols[k] = s

\* a ranks before b: a higher prediction, or the same one and an earlier place
RanksBefore(a, b, preds) ==
    \/ QLt(preds[b], preds[a])
    \/ preds[a] = preds[b] /\ PlaceOf(a) < PlaceOf(b)

\* the symbols of the latest step predicted strictly above 0.01
Eligible == {s \in DOMAIN last_step.predictions :
               QLt(Q(1, 100), last_step.predictions[s])}

StepCompleted ==
    /\ last_step.date >= 0
    /\ sim_pc \in {"run", "done"}

\* the symbols held when the latest step began that are not in its buy set
HeldOutsideBuySet ==
    {s \in Held(last_step.held) : ~InSeq(s, last_step.buy)}

\* quantity * close * (1 - transaction_cost), summed over the first k symbols
\* that are in the set sold
RECURSIVE SaleProceeds(_, _)
SaleProceeds(sold, k) ==
    IF k = 0 THEN Zero
    ELSE IF symbols[k] \in sold
         THEN QAdd(SaleProceeds(sold, k - 1),
                   QMul(QMul(last_step.held[symbols[k]], last_step.close[symbols[k]]),
                        QSub(One, sim_transaction_cost)))
         ELSE SaleProceeds(sold, k - 1)

\* C13: at every step, also one where no symbol produced a prediction (the
\* buy set is then empty), every position held outside the buy set is sold
\* whole before allocations are computed: its share count is 0 afterwards and
\* the cash at allocation time has grown by quantity * close * (1 - cost).
LiquidatesOutsideBuySet ==
    StepCompleted =>
      /\ \A s \in HeldOutsideBuySet : sim_positions[s] = Zero
      /\ last_step.cash_sold =
           QAdd(last_step.cash_start, SaleProceeds(HeldOutsideBuySet, Len(symbols)))

\* C14: a 5% cash buffer is always retained: after the buy phase of a step
\* that has a buy set (of one or two symbols), cash is at least 5% of the
\* cash that was available when the allocation was computed, whatever the
\* transaction cost.
CashBufferKept ==
    (StepCompleted /\ last_step.buy # <<>>) =>
      QGe(cash, QMul(Q(1, 20), last_step.cash_sold))

\* the places in the trade log of the BUY trades of the latest step
StepBuys ==
    {k \in (last_step.logged + 1)..Len(trades) : trades[k].action = "BUY"}

\* how many of the buy-set symbols before place j were purchased
BoughtBefore(j) ==
    Cardinality({k \in StepBuys :
                   \E m \in 1..(j - 1) : last_step.buy[m] = trades[k].symbol})

\* allocation * (1 + transaction_cost) of the latest step
StepCost ==
    QMul(QDiv(QMul(last_step.cash_sold, Q(19, 20)), Q(Len(last_step.buy), 1)),
         QAdd(One, sim_transaction_cost))

\* C15: cash is never negative: a purchase whose cost-inclusive price
\* allocation * (1 + transaction_cost) exceeds the cash at hand is skipped
\* (no shares, no trade, cash unchanged), every other one is made once.
CashNeverNegative ==
    /\ sim_pc # "idle" => QGe(cash, Zero)
    /\ (StepCompleted /\ last_step.buy # <<>>) =>
         /\ \A j \in 1..Len(last_step.buy) :
              LET s == last_step.buy[j]
                  at_hand == QSub(last_step.cash_sold,
                                  QMul(Q(BoughtBefore(j), 1), StepCost))
                  bought == {k \in StepBuys : trades[k].symbol = s}
              IN  IF QLt(at_hand, StepCost)
                  THEN bought = {} /\ sim_positions[s] = last_step.held[s]
                  ELSE Cardinality(bought) = 1
         /\ cash = QSub(last_step.cash_sold,
                        QMul(Q(Cardinality(StepBuys), 1), StepCost))

\* C15 witness: a step that bought its first symbol and skipped the second,
\* which the cash left no longer covered
CashNeverNegativeWitness ==
    /\ StepCompleted
    /\ Len(last_step.buy) = 2
    /\ Cardinality(StepBuys) = 1
    /\ QLt(cash, StepCost)
    /\ QLt(Zero, cash)

\* C16: a failure of one symbol at one step (no model, too few feature rows,
\* predict raising, or no price for the current date when the symbol is
\* sold, bought or valued) skips that symbol for the step only: the run
\* never aborts and has one equity value for that step and every later one.
StepFailuresSkipped ==
    /\ sim_pc # "price_error"
    /\ sim_pc \in {"run", "done"} =>
         Len(portfolio_value) = 1 + (sim_i - WarmUp)

\* the trades appended by the latest step, in logging order
StepTrades == SubSeq(trades, last_step.logged + 1, Len(trades))

\* C17: a step appends exactly one SELL for each held symbol outside the buy
\* set and exactly one BUY for each buy-set symbol purchased, the SELLs
\* before the BUYs, and nothing else; the trades logged before stay as
\* they were.
TradeLogPerStep ==
    StepCompleted =>
      LET new == StepTrades
          sells == {k \in 1..Len(new) : new[k].action = "SELL"}
          buys == {k \in 1..Len(new) : new[k].action = "BUY"}
      IN  /\ SubSeq(trades, 1, last_step.logged) = last_step.log
          /\ sells \cup buys = 1..Len(new)
          /\ \A k \in 1..Len(new) : new[k].date = last_step.date
          /\ \A s \in HeldOutsideBuySet :
               Cardinality({k \in sells : new[k].symbol = s}) = 1
          /\ \A k \in sells : new[k].symbol \in HeldOutsideBuySet
          /\ \A k \in buys :
               /\ InSeq(new[k].symbol, last_step.buy)
               /\ \A l \in buys : new[l].symbol = new[k].symbol => l = k
               /\ sim_positions[new[k].symbol] = new[k].quantity
          /\ \A k \in sells : \A l \in buys : k < l

\* ------------------------------------------------------------------------
\* The response of a long run
\* ------------------------------------------------------------------------

\* A run that trades once per step, at Close 1.0 and without cost: symbol A
\* is predicted above the threshold at every other step (bought with 95% of
\* the cash) and at it at the steps between (sold).  Trade k is made at
\* dates[100 + k - 1].
LongRunTrade(k, capital) ==
    LET amount == QMul(capital, AllocationShare)
    IN  [date |-> WarmUp + k - 1, symbol |-> "A",
         action |-> IF k % 2 = 1 THEN "BUY" ELSE "SELL",
         quantity |-> amount, price |-> One, value |-> amount]

\* the end of the loop of such a run of N steps, for every N up to MaxTrades
InitResponse ==
    /\ EngineIdle
    /\ WalkIdle
    /\ MetricsIdle
    /\ ModelsIdle
    /\ ServiceIdle
    /\ symbols = <<"A", "B">>
    /\ sim_transaction_cost = Zero
    /\ initial_capital = Q(InitialCapital, 1)
    /\ n_dates \in WarmUp..(WarmUp + MaxTrades)
    /\ sim_i = n_dates
    /\ LET N == n_dates - WarmUp
           invested == QMul(initial_capital, AllocationShare)
       IN  /\ trades = [k \in 1..N |-> LongRunTrade(k, initial_capital)]
           /\ cash = IF N % 2 = 1 THEN QSub(initial_capital, invested)
                      ELSE initial_capital
           /\ sim_positions = [s \in {"A", "B"} |->
                                 IF s = "A" /\ N % 2 = 1 THEN invested ELSE Zero]
           /\ portfolio_value = [k \in 1..(N + 1) |-> initial_capital]
           /\ portfolio_dates = [k \in 1..N |-> WarmUp + k - 1]
    /\ last_step = NoStep
    /\ sim_pc = "run"
    /\ response = NoResponse

SpecResponse == InitResponse /\ [][SimFinish]_vars

\* C18: the trades returned are the first min(100, N) entries of the trade
\* log, in logging order, and total_trades is N, the length of the whole log.
ResponseTrades ==
    sim_pc = "done" =>
      /\ Len(response.trades) = IF Len(trades) < 100 THEN Len(trades) ELSE 100
      /\ \A k \in 1..Len(response.trades) : response.trades[k] = trades[k]
      /\ response.total_trades = Len(trades)

\* C18 witness: a response built from a log of more than 100 trades
ResponseTradesWitness ==
    /\ sim_pc = "done"
    /\ Len(trades) > 100
    /\ Len(response.trades) = 100

\* shares * close at the latest step's date, summed over a set of symbols
RECURSIVE ValueAtClose(_)
ValueAtClose(held) ==
    IF held = {} THEN Zero
    ELSE LET s == CHOOSE x \in held : TRUE
         IN  QAdd(QMul(sim_positions[s], last_step.close[s]),
                  ValueAtClose(held \ {s}))

\* C19: the equity curve starts with initial_capital and has exactly one more
\* value per step i in [100, len(dates)), computed after the step's sells
\* and buys as cash plus shares * close at dates[i] over the held symbols; no
\* trade and no equity value comes from an index below the warm-up of 100.
EquityCurvePerStep ==
    sim_pc # "idle" =>
      /\ portfolio_value[1] = initial_capital
      /\ sim_i >= 100
      /\ Len(portfolio_value) = 1 + (sim_i - 100)
      /\ Len(portfolio_dates) = sim_i - 100
      /\ \A k \in 1..Len(portfolio_dates) : portfolio_dates[k] = 100 + k - 1
      /\ \A k \in 1..Len(trades) :
           trades[k].date >= 100 /\ trades[k].date < sim_i
      /\ StepCompleted =>
           /\ last_step.date = sim_i - 1
           /\ portfolio_value[Len(portfolio_value)] =
                QAdd(cash, ValueAtClose(Held(sim_positions)))
      /\ sim_pc = "done" =>
           /\ sim_i = n_dates
           /\ response.equity_values = portfolio_value

\* C19 witness: a finished run whose last step sold one symbol, bought
\* another and valued it, the equity differing from the cash
EquityCurvePerStepWitness ==
    /\ sim_pc = "done"
    /\ Len(portfolio_value) >= 3
    /\ \E k, l \in 1..Len(StepTrades) :
         StepTrades[k].action = "SELL" /\ StepTrades[l].action = "BUY"
    /\ Held(sim_positions) # {}
    /\ portfolio_value[Len(portfolio_value)] # cash
    /\ portfolio_value[Len(portfolio_value)] # portfolio_value[Len(portfolio_value) - 1]

\* ------------------------------------------------------------------------
\* Performance metrics (src/src/backtest/metrics.py)
\*
\* A metric is kept exact.  Exact(q) is the rational q (or NaN); a value
\* sg * sqrt(sq) that is not 0 is kept as a root, sqrt(252) * mean / std as
\* a ratio, (base ** (252 / n) - 1) * scale with a base other than 0 and 1
\* as a power, and np.inf as such.
\* Rounding is modelled where it decides a branch: the tests `std == 0`.
\* There the sums are rounded to MantissaBits significant bits (round to
\* nearest, ties to even), as the doubles of the program are to 53.
\* ------------------------------------------------------------------------

\* significant bits of the floats in which a spread is summed
MantissaBits == 3

\* periods per year
TradingDays == 252

\* risk_free_rate=0.02
RiskFreeRate == Q(1, 50)

Exact(q) == [kind |-> "exact", q |-> q]

Infinite == [kind |-> "inf"]

\* a function that did not return: ZeroDivisionError from 252 / len(returns)
Raised == [kind |-> "raised"]

\* a finite quotient of two rounding errors
Noise == [kind |-> "noise"]

RECURSIVE Pow2(_)
Pow2(k) == IF k = 0 THEN 1 ELSE 2 * Pow2(k - 1)

\* a / b > 0 rounded to m * 2 ** e with MantissaBits bits in m
RECURSIVE RoundPositive(_, _, _)
RoundPositive(a, b, e) ==
    IF a >= Pow2(MantissaBits) * b THEN RoundPositive(a, 2 * b, e + 1)
    ELSE IF a < Pow2(MantissaBits - 1) * b THEN RoundPositive(2 * a, b, e - 1)
    ELSE LET m == a \div b
             twice == 2 * (a - m * b)
             up == twice > b \/ (twice = b /\ m % 2 = 1)
             rounded == IF up THEN m + 1 ELSE m
         IN  IF e >= 0 THEN Q(rounded * Pow2(e), 1) ELSE Q(rounded, Pow2(-e))

\* the float nearest to x
Fl(x) ==
    IF IsNaN(x) THEN NaN
    ELSE IF x.n = 0 THEN Zero
    ELSE IF x.n > 0 THEN RoundPositive(x.n, x.d, 0)
    ELSE QNeg(RoundPositive(-x.n, x.d, 0))

\* ndarray.sum() of the first k values, added one by one
RECURSIVE FloatSum(_, _)
FloatSum(vals, k) ==
    IF k = 0 THEN Zero ELSE Fl(QAdd(FloatSum(vals, k - 1), vals[k]))

\* ndarray.mean()
FloatMean(vals) == Fl(QDiv(FloatSum(vals, Len(vals)), Q(Len(vals), 1)))

\* the sum of (x - mean) ** 2 as numpy's var and pandas' nanvar compute it
FloatSquares(vals) ==
    LET m == FloatMean(vals)
        sq == [k \in 1..Len(vals) |->
                 Fl(QMul(Fl(QSub(vals[k], m)), Fl(QSub(vals[k], m))))]
    IN  FloatSum(sq, Len(vals))

\* the same sum without rounding
ExactSquares(vals) ==
    LET m == Mean(vals)
        sq == [k \in 1..Len(vals) |-> QMul(QSub(vals[k], m), QSub(vals[k], m))]
    IN  SumQ(sq, Len(vals))

\* the sum a spread is computed from: the exact one, unless that is 0 and
\* all that is left is what rounding made of it
ComputedSquares(vals) ==
    IF ExactSquares(vals) = Zero THEN FloatSquares(vals) ELSE ExactSquares(vals)

\* ndarray.std() ** 2 (ddof = 0); NaN for an empty array
NumpyVariance(vals) ==
    QDiv(ComputedSquares(vals), Q(Len(vals), 1))

\* Series.std() ** 2 (ddof = 1); NaN for fewer than two values
PandasVariance(vals) ==
    IF Len(vals) < 2 THEN NaN
    ELSE QDiv(ComputedSquares(vals), Q(Len(vals) - 1, 1))

\* sg * sqrt(sq), for sg in {-1, 0, 1} and sq >= 0 or NaN
Rooted(sg, sq) ==
    IF IsNaN(sq) THEN Exact(NaN)
    ELSE IF sg = 0 \/ sq.n = 0 THEN Exact(Zero)
    ELSE [kind |-> "root", sg |-> sg, sq |-> sq]

\* (base ** (252 / n) - 1) * scale, for base >= 0: 1.0 ** x is 1.0 and
\* 0.0 ** x is 0.0 for every x > 0
Annualised(base, n, scale) ==
    IF IsNaN(base) \/ IsNaN(scale) THEN Exact(NaN)
    ELSE IF base = One THEN Exact(Zero)
    ELSE IF base = Zero THEN Exact(QNeg(scale))
    ELSE [kind |-> "power", base |-> base, periods |-> n, scale |-> scale]

\* excess_returns.mean(), with excess_returns = returns - risk_free_rate / 252
ExcessMean(rets) == QSub(Mean(rets), QDiv(RiskFreeRate, Q(TradingDays, 1)))

\* np.sqrt(252) * mean / spread, spread ** 2 being var > 0: 0 for a mean
\* of 0, else kept as the pair it is computed from
Ratio(m, var) ==
    IF IsNaN(m) \/ IsNaN(var) THEN Exact(NaN)
    ELSE IF m = Zero THEN Exact(Zero)
    ELSE [kind |-> "ratio", mean |-> m, var |-> var]

\* calculate_sharpe_ratio on returns.values
SharpeRatio(rets) ==
    IF NumpyVariance(rets) = Zero THEN Exact(Zero)
    ELSE Ratio(ExcessMean(rets), NumpyVariance(rets))

\* calculate_sortino_ratio on returns.values
SortinoRatio(rets) ==
    LET downside_returns == SelectSeq(rets, LAMBDA r : QLt(r, Zero))
    IN  IF Len(downside_returns) = 0 THEN Exact(Zero)
        ELSE IF NumpyVariance(downside_returns) = Zero THEN Exact(Zero)
        ELSE Ratio(ExcessMean(rets), NumpyVariance(downside_returns))

\* a running peak that starts from the wealth 1 held before the first return
RECURSIVE RunningMaxFromOne(_, _)
RunningMaxFromOne(rets, t) ==
    IF t = 0 THEN One
    ELSE LET before == RunningMaxFromOne(rets, t - 1)
         IN  IF QLt(before, CumProd(rets, t)) THEN CumProd(rets, t) ELSE before

\* cumulative.expanding().max() at row t
RECURSIVE RunningMax(_, _)
RunningMax(rets, t) ==
    IF t = 1 THEN CumProd(rets, 1)
    ELSE LET before == RunningMax(rets, t - 1)
         IN  IF QLt(before, CumProd(rets, t)) THEN CumProd(rets, t) ELSE before

\* drawdown = (cumulative - running_max) / running_max at row t; 0 / 0 is NaN
Drawdown(rets, t) ==
    QDiv(QSub(CumProd(rets, t), RunningMax(rets, t)), RunningMax(rets, t))

\* Series.min(): the least of the first t values, missing ones skipped;
\* NaN if there is none
RECURSIVE MinSkipNa(_, _)
MinSkipNa(vals, t) ==
    IF t = 0 THEN NaN
    ELSE LET before == MinSkipNa(vals, t - 1)
         IN  IF IsNaN(vals[t]) THEN before
             ELSE IF IsNaN(before) \/ QLt(vals[t], before) THEN vals[t]
             ELSE before

\* the largest drawdown reported as a magnitude
MaxDrawdownMagnitude(rets) ==
    QSub(Zero, MinSkipNa([t \in 1..Len(rets) |-> Drawdown(rets, t)], Len(rets)))

\* calculate_max_drawdown
MaxDrawdown(rets) ==
    MinSkipNa([t \in 1..Len(rets) |-> Drawdown(rets, t)], Len(rets))

\* calculate_calmar_ratio; 252 / len(returns) comes first
CalmarRatio(rets) ==
    IF Len(rets) = 0 THEN Raised
    ELSE LET max_dd == QAbs(MaxDrawdown(rets))
         IN  IF max_dd = Zero THEN Exact(Zero)
             ELSE Annualised(CumProd(rets, Len(rets)), Len(rets), QDiv(One, max_dd))

\* calculate_win_rate
WinRate(rets) ==
    LET nonzero == SelectSeq(rets, LAMBDA r : r # Zero)
        wins == SelectSeq(nonzero, LAMBDA r : QLt(Zero, r))
    IN  IF Len(nonzero) = 0 THEN Exact(Zero)
        ELSE Exact(Q(Len(wins), Len(nonzero)))

\* calculate_profit_factor
ProfitFactor(rets) ==
    LET gains == SelectSeq(rets, LAMBDA r : QLt(Zero, r))
        losses == SelectSeq(rets, LAMBDA r : QLt(r, Zero))
        gross_profit == SumQ(gains, Len(gains))
        gross_loss == QAbs(SumQ(losses, Len(losses)))
    IN  IF gross_loss = Zero
        THEN IF QLt(Zero, gross_profit) THEN Infinite ELSE Exact(Zero)
        ELSE Exact(QDiv(gross_profit, gross_loss))

\* returns - benchmark_returns on aligned series
ActiveReturns(rets, bench) == [k \in 1..Len(rets) |-> QSub(rets[k], bench[k])]

\* calculate_information_ratio: mean * 252 / (std * sqrt(252))
InformationRatio(rets, bench) ==
    LET active_returns == ActiveReturns(rets, bench)
    IN  IF PandasVariance(active_returns) = Zero THEN Exact(Zero)
        ELSE Ratio(Mean(active_returns), PandasVariance(active_returns))

\* Series.cov (ddof = 1); NaN for fewer than two rows.  Subtracting
\* rf_daily from both series leaves the deviations as they are.
Covariance(rets, bench) ==
    IF Len(rets) < 2 THEN NaN
    ELSE LET prod == [k \in 1..Len(rets) |->
                        QMul(QSub(rets[k], Mean(rets)), QSub(bench[k], Mean(bench)))]
         IN  QDiv(SumQ(prod, Len(rets)), Q(Len(rets) - 1, 1))

\* beta of calculate_alpha_beta
Beta(rets, bench) ==
    LET benchmark_variance == PandasVariance(bench)
    IN  IF benchmark_variance = Zero THEN Exact(Zero)
        ELSE IF IsNaN(benchmark_variance) THEN Exact(NaN)
        ELSE IF ExactSquares(bench) = Zero THEN Noise
        ELSE Exact(QDiv(Covariance(rets, bench), benchmark_variance))

\* alpha of calculate_alpha_beta
Alpha(rets, bench) ==
    LET beta == Beta(rets, bench)
    IN  IF beta.kind # "exact" THEN beta
        ELSE Exact(QMul(QSub(ExcessMean(rets), QMul(beta.q, ExcessMean(bench))),
                        Q(TradingDays, 1)))

\* returns.std() * np.sqrt(252) on the pandas Series (ddof = 1)
Volatility(rets) == Rooted(1, QMul(Q(TradingDays, 1), PandasVariance(rets)))

\* benchmark_returns=None
NoBenchmark == [given |-> FALSE, v |-> <<>>]

\* calculate_all_metrics(returns, benchmark_returns); 252 / len(returns)
\* raises ZeroDivisionError on an empty series
CalculateAllMetrics(rets, bench) ==
    IF Len(rets) = 0 THEN [status |-> "raised"]
    ELSE IF ~bench.given
    THEN [status |-> "ok",
          total_return |-> Exact(QSub(CumProd(rets, Len(rets)), One)),
          annual_return |-> Annualised(CumProd(rets, Len(rets)), Len(rets), One),
          volatility |-> Volatility(rets),
          sharpe_ratio |-> SharpeRatio(rets),
          sortino_ratio |-> SortinoRatio(rets),
          calmar_ratio |-> CalmarRatio(rets),
          max_drawdown |-> Exact(MaxDrawdown(rets)),
          win_rate |-> WinRate(rets),
          profit_factor |-> ProfitFactor(rets)]
    ELSE [status |-> "ok",
          total_return |-> Exact(QSub(CumProd(rets, Len(rets)), One)),
          annual_return |-> Annualised(CumProd(rets, Len(rets)), Len(rets), One),
          volatility |-> Volatility(rets),
          sharpe_ratio |-> SharpeRatio(rets),
          sortino_ratio |-> SortinoRatio(rets),
          calmar_ratio |-> CalmarRatio(rets),
          max_drawdown |-> Exact(MaxDrawdown(rets)),
          win_rate |-> WinRate(rets),
          profit_factor |-> ProfitFactor(rets),
          information_ratio |-> InformationRatio(rets, bench.v),
          alpha |-> Alpha(rets, bench.v),
          beta |-> Beta(rets, bench.v)]

\* one call of calculate_all_metrics
ComputeMetrics ==
    /\ metrics = NoMetrics
    /\ metrics' = CalculateAllMetrics(returns, benchmark_returns)
    /\ UNCHANGED <<returns, benchmark_returns, standalone>>
    /\ UNCHANGED <<engineVars, walkVars, simVars, modelVars, serviceVars>>

\* the metric functions called one by one on the same series
CallEach ==
    /\ standalone = NoMetrics
    /\ standalone' = [status |-> "ok",
                      sharpe_ratio |-> SharpeRatio(returns),
                      sortino_ratio |-> SortinoRatio(returns),
                      max_drawdown |-> Exact(MaxDrawdown(returns)),
                      calmar_ratio |-> CalmarRatio(returns),
                      win_rate |-> WinRate(returns),
                      profit_factor |-> ProfitFactor(returns)]
    /\ UNCHANGED <<returns, benchmark_returns, metrics>>
    /\ UNCHANGED <<engineVars, walkVars, simVars, modelVars, serviceVars>>

MetricsNext == ComputeMetrics \/ CallEach

\* daily returns that are enumerated: a total loss, a loss whose triple is
\* not a float of MantissaBits bits, none, and a gain
MetricReturnValues == {Q(-1, 1), Q(-3, 8), Q(0, 1), Q(1, 4)}

\* benchmark returns that are enumerated
BenchmarkValues == {Q(0, 1), Q(1, 4)}

InitMetrics ==
    /\ EngineIdle
    /\ WalkIdle
    /\ SimIdle
    /\ ModelsIdle
    /\ ServiceIdle
    /\ returns \in Series(MetricReturnValues, 0)
    /\ benchmark_returns \in
         {NoBenchmark} \cup
         {[given |-> TRUE, v |-> b] : b \in [1..Len(returns) -> BenchmarkValues]}
    /\ metrics = NoMetrics
    /\ standalone = NoMetrics

SpecMetrics == InitMetrics /\ [][MetricsNext]_vars

\* C20: on a non-empty series of zeros, of any length n >= 1 (n = 1
\* included), total_return, annual_return, volatility, sharpe_ratio,
\* sortino_ratio, max_drawdown, win_rate and profit_factor are all 0.
AllZeroMetricsZero ==
    (metrics.status = "ok" /\ \A k \in 1..Len(returns) : returns[k] = Zero) =>
      /\ metrics.total_return = Exact(Zero)
      /\ metrics.annual_return = Exact(Zero)
      /\ metrics.volatility = Exact(Zero)
      /\ metrics.sharpe_ratio = Exact(Zero)
      /\ metrics.sortino_ratio = Exact(Zero)
      /\ metrics.max_drawdown = Exact(Zero)
      /\ metrics.win_rate = Exact(Zero)
      /\ metrics.profit_factor = Exact(Zero)

\* a metric value that is a number, neither NaN nor infinite
IsFinite(m) ==
    \/ m.kind \in {"root", "ratio", "power", "noise"}
    \/ m.kind = "exact" /\ ~IsNaN(m.q)

\* C21: for every non-empty return series (one element included) and every
\* aligned benchmark, every value returned by calculate_all_metrics is a
\* finite number, except profit_factor = +infinity when there are gains and
\* no losses.
AllMetricsFinite ==
    metrics.status = "ok" =>
      \A f \in DOMAIN metrics \ {"status"} :
        \/ IsFinite(metrics[f])
        \/ /\ f = "profit_factor"
           /\ metrics[f] = Infinite
           /\ \E k \in 1..Len(returns) : QLt(Zero, returns[k])
           /\ \A k \in 1..Len(returns) : ~QLt(returns[k], Zero)

\* the series whose elements are all equal
AllEqual(vals) == \A k \in 1..Len(vals) : vals[k] = vals[1]

\* C22: on a series whose elements are all equal (any sign, any length >= 1)
\* calculate_sharpe_ratio and calculate_sortino_ratio return exactly 0.0;
\* sortino also returns 0.0 whenever the series has no negative return.
ConstantSeriesRatiosZero ==
    (standalone.status = "ok" /\ Len(returns) >= 1) =>
      /\ AllEqual(returns) =>
           /\ standalone.sharpe_ratio = Exact(Zero)
           /\ standalone.sortino_ratio = Exact(Zero)
      /\ (\A k \in 1..Len(returns) : ~QLt(returns[k], Zero)) =>
           standalone.sortino_ratio = Exact(Zero)

\* C23: calculate_max_drawdown is <= 0 for every non-empty series whose
\* returns are all above -1, and exactly 0 when no return is negative (the
\* wealth path never decreases).
MaxDrawdownNonPositive ==
    (/\ standalone.status = "ok"
     /\ Len(returns) >= 1
     /\ \A k \in 1..Len(returns) : QLt(Q(-1, 1), returns[k])) =>
      /\ QLe(standalone.max_drawdown.q, Zero)
      /\ (\A k \in 1..Len(returns) : QLe(Zero, returns[k])) =>
           standalone.max_drawdown.q = Zero

\* C23 witness: a gain followed by a loss, measured as a drawdown below 0
MaxDrawdownNonPositiveWitness ==
    /\ standalone.status = "ok"
    /\ Len(returns) >= 2
    /\ \A k \in 1..Len(returns) : QLt(Q(-1, 1), returns[k])
    /\ QLt(Zero, returns[1])
    /\ QLt(returns[2], Zero)
    /\ QLt(standalone.max_drawdown.q, Zero)

\* the least of (W_t - M_t) / M_t over t = 1..k, with M_t = max(W_0..W_t)
\* and W_0 = 1
RECURSIVE DrawdownFromStart(_, _)
DrawdownFromStart(rets, k) ==
    LET here == QDiv(QSub(CumProd(rets, k), RunningMaxFromOne(rets, k)),
                     RunningMaxFromOne(rets, k))
    IN  IF k = 1 THEN here
        ELSE IF QLt(here, DrawdownFromStart(rets, k - 1)) THEN here
        ELSE DrawdownFromStart(rets, k - 1)

\* C24: calculate_max_drawdown(r) is the minimum over t of (W_t - M_t) / M_t
\* where the running peak M_t = max(W_0..W_t) includes the starting wealth
\* W_0 = 1: a loss in the first period is a drawdown from the initial capital.
MaxDrawdownFromInitialWealth ==
    (standalone.status = "ok" /\ Len(returns) >= 1) =>
      standalone.max_drawdown.q = DrawdownFromStart(returns, Len(returns))



\* C25: on an empty or single-element series no metric function raises and
\* each returns its 0.0 fallback, except calculate_calmar_ratio, whose
\* annualisation raises on the empty series (and only there).
ShortSeriesFallbacks ==
    (standalone.status = "ok" /\ Len(returns) <= 1) =>
      /\ standalone.sharpe_ratio = Exact(Zero)
      /\ standalone.sortino_ratio = Exact(Zero)
      /\ standalone.max_drawdown.kind = "exact"
      /\ ~IsNaN(standalone.max_drawdown.q)
      /\ standalone.win_rate.kind = "exact"
      /\ standalone.profit_factor # Raised
      /\ (standalone.calmar_ratio = Raised) <=> (Len(returns) = 0)
      /\ Len(returns) = 0 =>
           /\ standalone.max_drawdown = Exact(Zero)
           /\ standalone.win_rate = Exact(Zero)
           /\ standalone.profit_factor = Exact(Zero)


\* ------------------------------------------------------------------------
\* The model classes and their is_fitted flag (baseline_models.py,
\* xgboost_model.py, ensemble_model.py)
\* ------------------------------------------------------------------------

\* the base_models list the ensembles are constructed with
BaseModels == <<"LinearRegressionModel", "XGBoostPredictor">>

\* a flag that is set before the library is called
AfterFitEager(before, raised) == TRUE

\* self.model.fit(X, y) followed by self.is_fitted = True: the flag after a
\* fit call that found it at before, raised telling whether a statement ahead
\* of the assignment raised
AfterFit(before, raised) == IF raised THEN before ELSE TRUE

\* how predict can end: ValueError from the guard on is_fitted, else whatever
\* the library does
PredictOutcomes(fitted) ==
    IF ~fitted THEN {"ValueError"} ELSE {"returned", "raised"}

Call(op, m, outcome) ==
    [op |-> op, obj |-> m, outcome |-> outcome, before |-> instances]

\* __init__ of a model class; an ensemble is handed model objects that exist
Construct(m) ==
    /\ ~instances[m].built
    /\ m \in EnsembleIds => \A k \in 1..Len(BaseModels) : instances[BaseModels[k]].built
    /\ instances' = [instances EXCEPT ![m] = [built |-> TRUE, is_fitted |-> FALSE]]
    /\ last_call' = Call("construct", m, "returned")
    /\ UNCHANGED <<engineVars, walkVars, simVars, metricVars, serviceVars>>

\* fit of LinearRegressionModel, RandomForestModel or XGBoostPredictor
FitBase(m) ==
    /\ m \in BaseModelIds
    /\ instances[m].built
    /\ \E raised \in BOOLEAN :
         /\ instances' = [instances EXCEPT
                            ![m].is_fitted = AfterFit(instances[m].is_fitted, raised)]
         /\ last_call' = Call("fit", m, IF raised THEN "raised" ELSE "returned")
    /\ UNCHANGED <<engineVars, walkVars, simVars, metricVars, serviceVars>>

\* fit of an ensemble: the base models are fitted in list order; fitted of
\* them return before one raises (all return if fitted = Len(BaseModels));
\* late says that the meta-model fit of EnsemblePredictor, or the weighting of
\* WeightedEnsemble, raises after the base models were fitted
FitEnsemble(e) ==
    /\ e \in EnsembleIds
    /\ instances[e].built
    /\ \E fitted \in 0..Len(BaseModels), late \in BOOLEAN :
         LET raised == \/ fitted < Len(BaseModels)
                       \/ late /\ e # "SimpleAverageEnsemble"
         IN  /\ late => fitted = Len(BaseModels)
             /\ instances' =
                  [m \in ModelIds |->
                     IF m = e
                     THEN [instances[m] EXCEPT
                             !.is_fitted = AfterFit(instances[m].is_fitted, raised)]
                     ELSE IF \E k \in 1..fitted : BaseModels[k] = m
                     THEN [instances[m] EXCEPT !.is_fitted = AfterFit(instances[m].is_fitted, FALSE)]
                     ELSE instances[m]]
             /\ last_call' = Call("fit", e, IF raised THEN "raised" ELSE "returned")
    /\ UNCHANGED <<engineVars, walkVars, simVars, metricVars, serviceVars>>

\* predict of any of the classes
ModelPredict(m) ==
    /\ instances[m].built
    /\ \E outcome \in PredictOutcomes(instances[m].is_fitted) :
         last_call' = Call("predict", m, outcome)
    /\ UNCHANGED instances
    /\ UNCHANGED <<engineVars, walkVars, simVars, metricVars, serviceVars>>

\* XGBoostPredictor.load_model: is_fitted = True once the booster is read
LoadModel(m) ==
    /\ m = "XGBoostPredictor"
    /\ instances[m].built
    /\ \E raised \in BOOLEAN :
         /\ instances' = [instances EXCEPT
                            ![m].is_fitted = IF raised THEN @ ELSE TRUE]
         /\ last_call' = Call("load_model", m, IF raised THEN "raised" ELSE "returned")
    /\ UNCHANGED <<engineVars, walkVars, simVars, metricVars, serviceVars>>

ModelNext ==
    \E m \in ModelIds :
        \/ Construct(m)
        \/ FitBase(m)
        \/ FitEnsemble(m)
        \/ ModelPredict(m)
        \/ LoadModel(m)

InitModels ==
    /\ EngineIdle
    /\ WalkIdle
    /\ SimIdle
    /\ MetricsIdle
    /\ ServiceIdle
    /\ ModelsIdle

SpecModels == InitModels /\ [][ModelNext]_vars

\* C26: is_fitted is False after construction; predict raises ValueError
\* whenever is_fitted is False; a fit that returns leaves is_fitted True; a
\* fit that raises leaves is_fitted as it was; no call sets the is_fitted of
\* any model object back to False.
ModelLifecycle ==
    last_call.op # "none" =>
      LET m == last_call.obj
          was == last_call.before
      IN  /\ last_call.op = "construct" => ~instances[m].is_fitted
          /\ (last_call.op = "predict" /\ ~was[m].is_fitted) =>
               last_call.outcome = "ValueError"
          /\ (last_call.op = "fit" /\ last_call.outcome = "returned") =>
               instances[m].is_fitted
          /\ (last_call.op = "fit" /\ last_call.outcome = "raised") =>
               instances[m].is_fitted = was[m].is_fitted
          /\ \A x \in ModelIds :
               (was[x].built /\ was[x].is_fitted) => instances[x].is_fitted

\* C26 witness: the fit of an unfitted ensemble raised in its second base
\* model; the first base model is fitted, the ensemble is not
ModelLifecycleWitness ==
    /\ last_call.op = "fit"
    /\ last_call.obj = "EnsemblePredictor"
    /\ last_call.outcome = "raised"
    /\ ~last_call.before["EnsemblePredictor"].is_fitted
    /\ ~last_call.before[BaseModels[1]].is_fitted
    /\ instances[BaseModels[1]].is_fitted
    /\ ~instances["EnsemblePredictor"].is_fitted


\* ------------------------------------------------------------------------
\* PredictionService.predict (prediction_service.py:151-242)
\* ------------------------------------------------------------------------

\* most symbols in one request
MaxRequest == 2

RequestSymbols == {"SPY", "TLT"}

\* the predicted returns a fitted model gives for the latest row
ServicePredictionValues == {Q(-1, 20), Q(0, 1), Q(1, 50), Q(1, 5)}

\* prediction > 0.02 is a BUY, prediction < -0.02 a SELL
SignalThreshold == Q(1, 50)

\* the signal of a prediction (prediction_service.py:208-215)
Signal(p) ==
    IF QLt(SignalThreshold, p) THEN "BUY"
    ELSE IF QLt(p, QNeg(SignalThreshold)) THEN "SELL"
    ELSE "HOLD"

\* min(abs(prediction) * 10, 1.0) for BUY and SELL,
\* 1.0 - abs(prediction) * 5 for HOLD
Confidence(p) ==
    IF Signal(p) = "HOLD" THEN QSub(One, QMul(QAbs(p), Q(5, 1)))
    ELSE IF QLt(QMul(QAbs(p), Q(10, 1)), One) THEN QMul(QAbs(p), Q(10, 1))
    ELSE One

\* the dictionary appended for a symbol that went through
PredictionResult(symbol, p) ==
    [symbol |-> symbol, predicted_return |-> p, confidence |-> Confidence(p),
     signal |-> Signal(p)]

\* the dictionary appended by the except branch
ErrorResult(symbol) ==
    [symbol |-> symbol, predicted_return |-> Zero, confidence |-> Zero,
     signal |-> "ERROR"]

\* how the body of the try can end for one symbol: train_model raises, the
\* second fetch or prepare_features raises, model.predict raises, or a
\* prediction is made
ServiceFailures == {"train_model", "fetch", "predict"}

\* one iteration of `for symbol in symbols`; a model is trained only for a
\* symbol that has none, and stays stored when a later statement raises
ServicePredictSymbol ==
    /\ service_pc = "loop"
    /\ Len(results) < Len(request_symbols)
    /\ LET symbol == request_symbols[Len(results) + 1]
       IN  \/ /\ symbol \notin trained_models
              /\ results' = Append(results, ErrorResult(symbol))
              /\ UNCHANGED trained_models
           \/ \E failure \in ServiceFailures \ {"train_model"} :
                /\ results' = Append(results, ErrorResult(symbol))
                /\ trained_models' = trained_models \cup {symbol}
           \/ \E p \in ServicePredictionValues :
                /\ results' = Append(results, PredictionResult(symbol, p))
                /\ trained_models' = trained_models \cup {symbol}
    /\ UNCHANGED <<request_symbols, service_pc, returned>>
    /\ UNCHANGED <<engineVars, walkVars, simVars, metricVars, modelVars>>

\* return results
ServiceReturn ==
    /\ service_pc = "loop"
    /\ Len(results) = Len(request_symbols)
    /\ returned' = results
    /\ service_pc' = "returned"
    /\ UNCHANGED <<trained_models, request_symbols, results>>
    /\ UNCHANGED <<engineVars, walkVars, simVars, metricVars, modelVars>>

ServiceNext == ServicePredictSymbol \/ ServiceReturn

RECURSIVE Requests(_)
Requests(n) ==
    IF n = 0 THEN {<<>>}
    ELSE Requests(n - 1) \cup
         {Append(r, s) : r \in {q \in Requests(n - 1) : Len(q) = n - 1},
                         s \in RequestSymbols}

\* predict is called on a service that may hold models from earlier requests
InitService ==
    /\ EngineIdle
    /\ WalkIdle
    /\ SimIdle
    /\ MetricsIdle
    /\ ModelsIdle
    /\ trained_models \in SUBSET RequestSymbols
    /\ request_symbols \in Requests(MaxRequest)
    /\ results = <<>>
    /\ service_pc = "loop"
    /\ returned = <<>>

SpecService == InitService /\ [][ServiceNext]_vars

\* C27: predict returns one result per requested symbol, in request order,
\* each with a signal among BUY, SELL, HOLD and a confidence in [0, 1], also
\* for the symbols whose training, fetch or prediction failed.
PredictResultsWellFormed ==
    service_pc = "returned" =>
      /\ Len(returned) = Len(request_symbols)
      /\ \A k \in 1..Len(returned) :
           /\ returned[k].symbol = request_symbols[k]
           /\ returned[k].signal \in {"BUY", "SELL", "HOLD"}
           /\ QLe(Zero, returned[k].confidence)
           /\ QLe(returned[k].confidence, One)


\* ------------------------------------------------------------------------
\* BacktestService.run_backtest: value, holdings and dates of a step
\* ------------------------------------------------------------------------

\* shares * close at the latest step's date over a set of the symbols held
\* when the step began
RECURSIVE ValueBefore(_)
ValueBefore(held) ==
    IF held = {} THEN Zero
    ELSE LET s == CHOOSE x \in held : TRUE
         IN  QAdd(QMul(last_step.held[s], last_step.close[s]),
                  ValueBefore(held \ {s}))

\* the transaction costs of the first k trades of the latest step:
\* quantity * price * transaction_cost of a sale, value * transaction_cost of
\* a purchase
RECURSIVE CostsCharged(_)
CostsCharged(k) ==
    IF k = 0 THEN Zero
    ELSE LET t == StepTrades[k]
             base == IF t.action = "SELL" THEN QMul(t.quantity, t.price) ELSE t.value
         IN  QAdd(CostsCharged(k - 1), QMul(base, sim_transaction_cost))

\* C28: the total value after a step's sells and buys equals the value before
\* them at the same prices minus the transaction costs charged; with
\* transaction_cost = 0 a step never changes the total value, also when a
\* symbol already held is bought again.
ValueConserved ==
    (StepCompleted /\ Held(last_step.held) \subseteq DOMAIN last_step.close) =>
      portfolio_value[Len(portfolio_value)] =
        QSub(QAdd(last_step.cash_start, ValueBefore(Held(last_step.held))),
             CostsCharged(Len(StepTrades)))


\* C29: after every step at most two symbols have a positive share count,
\* every share count is >= 0, and after a step in which at least one
\* prediction was produced every symbol held belongs to that step's buy set.
HoldingsWithinBuySet ==
    sim_pc # "idle" =>
      /\ Cardinality(Held(sim_positions)) <= TopN
      /\ \A s \in DOMAIN sim_positions : QLe(Zero, sim_positions[s])
      /\ (StepCompleted /\ DOMAIN last_step.predictions # {}) =>
           Held(sim_positions) \subseteq Range(last_step.buy)

\* C29 witness: a symbol held when the step began is outside the buy set of a
\* step that had predictions, and is no longer held after it
HoldingsWithinBuySetWitness ==
    /\ StepCompleted
    /\ DOMAIN last_step.predictions # {}
    /\ last_step.buy # <<>>
    /\ HeldOutsideBuySet # {}
    /\ Held(sim_positions) # {}
    /\ Held(sim_positions) \subseteq Range(last_step.buy)

\* C30: the timestamps of the returned equity curve are strictly increasing:
\* no date appears twice, and the initial_capital entry is dated before the
\* entry of the first simulated step.
EquityDatesIncreasing ==
    (sim_pc = "done" /\ response.status = "ok") =>
      \A k \in 1..(Len(response.equity_dates) - 1) :
          response.equity_dates[k] < response.equity_dates[k + 1]

=============================================================================
